---- MODULE Spec2Model ----
(***************************************************************************)
(* A model of the 1C-Hotel API client (src/main.py) and of the URL         *)
(* reachability script (src/test.py).                                      *)
(*                                                                         *)
(* The client is one HotelAPI instance driven by a caller that awaits one  *)
(* call at a time.  A call is followed through its program positions:      *)
(*   "idle"      no call in progress                                       *)
(*   "loop"      at the head of `for attempt in range(attempts)`           *)
(*   "awaiting"  suspended in `await client.get/post`, a client is open    *)
(*   "returned"  the call returned `result`                                *)
(*   "raised"    the call ended by raising `exception`                     *)
(* The network is the environment: it answers the request in flight with   *)
(* one outcome drawn from Outcomes.                                        *)
(***************************************************************************)
EXTENDS Integers, Sequences, FiniteSets, TLC

VARIABLES
    ctor,        \* the arguments HotelAPI(...) was constructed with
    base_url,    \* self.base_url
    api_key,     \* self.api_key
    pc,          \* position of the call in progress
    op,          \* the operation the caller invoked, with its arguments
    frame,       \* locals of the _make_request activation (NoFrame if none)
    open,        \* ids of the httpx.AsyncClient objects currently open
    closed,      \* ids of the clients that were closed
    nclients,    \* number of clients constructed so far
    sent,        \* requests issued since the call in progress began
    outcomes,    \* what the network answered to each of them
    log,         \* lines given to the logger since the call began
    result,      \* value returned by the call (NoResult until it returns)
    exception,   \* exception that ended the call (NoException if none)
    calls,       \* calls the caller has started
    first,       \* caller's record of its first call (NoCall if not kept)
    accepted,    \* requests of the call in progress the server carried out
    mainv,       \* main(): the values its calls returned so far
    p_pc,        \* position of check_url_accessibility
    p_url,       \* its argument
    p_clock,     \* time units the current phase of requests.get has waited
    p_gets,      \* requests.get calls made by the check in progress
    p_status,    \* response.status_code (0 if there is no response)
    p_exc,       \* exception requests.get raised ("none" if none)
    p_expired,   \* whether the timeout ran out during the check
    p_result,    \* the string the check returned
    p_runs       \* checks started

clientVars == <<ctor, base_url, api_key, pc, op, frame, open, closed, nclients,
                sent, outcomes, log, result, exception, calls, first, accepted, mainv>>

probeVars == <<p_pc, p_url, p_clock, p_gets, p_status, p_exc, p_expired, p_result, p_runs>>

vars == <<clientVars, probeVars>>

----------------------------------------------------------------------------
(* Bounds of the model *)

MaxAttempts == 2      \* largest `attempts` argument given to _make_request directly
MaxCalls == 2         \* calls the caller makes on one HotelAPI instance
MaxRuns == 2          \* calls of check_url_accessibility

----------------------------------------------------------------------------
(* Python values *)

None == [type |-> "NoneType", repr |-> "None"]
Dict(repr) == [type |-> "dict", repr |-> repr]

NoBody == [type |-> "absent", repr |-> ""]
NoResult == [type |-> "absent", repr |-> "not returned"]
NoException == [type |-> "none", where |-> "none"]
NoFrame == [endpoint |-> "", method |-> "", data |-> NoBody, attempts |-> 0,
            url |-> "", headers |-> [Authorization |-> ""], attempt |-> 0,
            client |-> 0]
NoOp == [name |-> "none", room_id |-> "", user_data |-> NoBody]
NoCall == [outcomes |-> << >>, sent |-> << >>, result |-> NoResult]

DefaultAttempts == 3

Credentials ==
    { [base_url |-> "http://192.168.0.50:8181/hotel-test/api",
       api_key |-> "eAqYAR9dveWUwSYJ2yfWX6E3DhCkYTumoS+oxCPD02g="],
      [base_url |-> "https://pms.example/", api_key |-> "t0ken"] }

RoomIds == {"101", "../admin"}
UserA == Dict("{\"name\": \"Ivan\", \"email\": \"ivan@example.com\"}")
UserB == Dict("{}")
UserDatas == {UserA, UserB, None}
Endpoints == {"/rooms/availability", "rooms"}
Methods == {"GET", "get", "POST", "PUT"}
Datas == {None, UserA}
AttemptCounts == (0 - 1) .. MaxAttempts

----------------------------------------------------------------------------
(* The network: what one attempt can meet *)

BodyRooms == "{\"rooms\": [101, 102]}"
BodyBooked == "{\"status\": \"booked\"}"
BodyNull == "null"
BodyNotFound == "{\"error\": \"not found\"}"
BodyHtml == "<html>Bad Gateway</html>"

Response(status, body) ==
    [kind |-> "response", status |-> status, body |-> body, exc |-> "none"]
NetError(exc) ==
    [kind |-> "error", status |-> 0, body |-> "", exc |-> exc]

Outcomes ==
    { Response(200, BodyRooms), Response(201, BodyBooked), Response(200, BodyNull),
      Response(200, BodyHtml), Response(404, BodyNotFound), Response(500, BodyHtml),
      NetError("ConnectError"), NetError("ReadTimeout") }

\* response.json(): the parsed body, or JSONDecodeError
JsonLoads(raw) ==
    CASE raw = BodyNull -> [ok |-> TRUE, value |-> None]
      [] raw \in {BodyRooms, BodyBooked, BodyNotFound} -> [ok |-> TRUE, value |-> Dict(raw)]
      [] OTHER -> [ok |-> FALSE, value |-> NoResult]

\* response.raise_for_status(): TRUE when it raises HTTPStatusError
RaiseForStatusNot200(status) == status # 200
RaiseForStatusOnly5xx(status) == status >= 500
RaiseForStatus(status) == ~(200 <= status /\ status <= 299)

\* the classes an exception raised inside the attempt is an instance of
HttpxBases(exc) ==
    CASE exc = "HTTPStatusError" -> {"HTTPStatusError", "HTTPError", "Exception", "BaseException"}
      [] exc = "ConnectError" -> {"ConnectError", "NetworkError", "TransportError",
                                  "RequestError", "HTTPError", "Exception", "BaseException"}
      [] exc = "ReadTimeout" -> {"ReadTimeout", "TimeoutException", "TransportError",
                                 "RequestError", "HTTPError", "Exception", "BaseException"}
      [] exc = "JSONDecodeError" -> {"JSONDecodeError", "ValueError", "Exception", "BaseException"}
      [] exc = "AttributeError" -> {"AttributeError", "Exception", "BaseException"}
      [] OTHER -> {"BaseException"}

\* the except clauses of _make_request, in order; "none" when no clause matches
ExceptClausesStatusOnly == <<"HTTPStatusError">>
ExceptClauses == <<"HTTPStatusError", "Exception">>

Handler(exc) ==
    LET hits == {i \in DOMAIN ExceptClauses : ExceptClauses[i] \in HttpxBases(exc)}
    IN  IF hits = {} THEN "none"
        ELSE ExceptClauses[CHOOSE i \in hits : \A j \in hits : i <= j]

\* `return response.json()`: the value a successful attempt returns
ReturnedCached(o) == IF first # NoCall THEN first.result ELSE JsonLoads(o.body).value
Returned(o) == JsonLoads(o.body).value

\* method.upper()
UpperUnchanged(method) == method
Upper(method) ==
    CASE method = "get" -> "GET"
      [] OTHER -> method

\* what the body of the `async with` raises on an outcome ("none": it returns)
Raised(o) ==
    IF o.kind = "error" THEN o.exc
    ELSE IF RaiseForStatus(o.status) THEN "HTTPStatusError"
    ELSE IF ~JsonLoads(o.body).ok THEN "JSONDecodeError"
    ELSE "none"

----------------------------------------------------------------------------
(* HotelAPI *)

UrlWithSlash(endpoint) == base_url \o "/" \o endpoint
Url(endpoint) == base_url \o endpoint

Headers == [Authorization |-> "Bearer " \o api_key]

\* the request `client.get(url, headers=headers)` or
\* `client.post(url, headers=headers, json=data)` puts on the wire
Request(f, c) ==
    IF Upper(f.method) = "GET"
    THEN [verb |-> "GET", url |-> f.url, headers |-> f.headers, json |-> NoBody, client |-> c]
    ELSE [verb |-> "POST", url |-> f.url, headers |-> f.headers, json |-> f.data, client |-> c]

\* range(attempts): does the loop have an iteration number `attempt`
InRangeInclusive(attempt, attempts) == attempt <= attempts
InRangeAtLeastOnce(attempt, attempts) == attempt < attempts \/ attempt = 0
InRange(attempt, attempts) == attempt < attempts

\* httpx.AsyncClient(): a new client object
NewClient == nclients + 1

\* leaving `async with`: the clients open afterwards
ExitKeptOnError(c, exc) == IF exc = "none" THEN open \ {c} ELSE open
Exit(c, exc) == open \ {c}

AvailabilityEndpoint == "/rooms/availability"
RoomInfoEndpoint(room_id) == "/rooms/" \o room_id
BookEndpointNoSuffix(room_id) == "/rooms/" \o room_id
BookEndpoint(room_id) == "/rooms/" \o room_id \o "/book"

Line(level, event) == [level |-> level, event |-> event]

\* the logger.error line of the except clause that caught the exception
ErrorLines(clause) ==
    IF clause = "HTTPStatusError"
    THEN <<Line("ERROR", "status_error")>>
    ELSE <<Line("ERROR", "request_error")>>

\* the server: whether it carried out the request the outcome answers. It did
\* when it answered with success; when the client gave up waiting for the
\* response it may or may not have; otherwise it did not.
CarriedOut(o) ==
    IF o.kind = "response" THEN {o.status \in 200..299}
    ELSE IF o.exc = "ReadTimeout" THEN {TRUE, FALSE}
    ELSE {FALSE}

\* entry of _make_request: url and headers are built once, before the loop
MakeRequest(endpoint, method, data, attempts) ==
    /\ frame' = [endpoint |-> endpoint, method |-> method, data |-> data,
                 attempts |-> attempts, url |-> Url(endpoint), headers |-> Headers,
                 attempt |-> 0, client |-> 0]
    /\ pc' = "loop"

Begin(name, room_id, user_data) ==
    /\ pc = "idle"
    /\ calls < MaxCalls
    /\ calls' = calls + 1
    /\ op' = [name |-> name, room_id |-> room_id, user_data |-> user_data]
    /\ sent' = << >>
    /\ outcomes' = << >>
    /\ result' = NoResult
    /\ accepted' = 0
    /\ UNCHANGED <<ctor, base_url, api_key, open, closed, nclients, first, mainv>>
    /\ UNCHANGED probeVars

make_request ==
    \E endpoint \in Endpoints, method \in Methods, data \in Datas, attempts \in AttemptCounts :
        /\ Begin("_make_request", "", NoBody)
        /\ log' = << >>
        /\ exception' = NoException
        /\ MakeRequest(endpoint, method, data, attempts)

\* user_data.get('name') in the log line of book_room
HasGet(user_data) == user_data.type = "dict"

\* the body of a Domain Operation, up to its entry into _make_request
Invoke(name, room_id, user_data) ==
    IF name = "get_room_availability"
    THEN /\ log' = <<Line("DEBUG", "availability")>>
         /\ exception' = NoException
         /\ MakeRequest(AvailabilityEndpoint, "GET", None, DefaultAttempts)
    ELSE IF name = "get_room_info"
    THEN /\ log' = <<Line("DEBUG", "room_info")>>
         /\ exception' = NoException
         /\ MakeRequest(RoomInfoEndpoint(room_id), "GET", None, DefaultAttempts)
    ELSE IF HasGet(user_data)
    THEN /\ log' = <<Line("DEBUG", "book")>>
         /\ exception' = NoException
         /\ MakeRequest(BookEndpoint(room_id), "POST", user_data, DefaultAttempts)
    ELSE /\ log' = << >>
         /\ exception' = [type |-> "AttributeError", where |-> "book_room"]
         /\ pc' = "raised"
         /\ frame' = NoFrame

get_room_availability ==
    /\ Begin("get_room_availability", "", NoBody)
    /\ Invoke("get_room_availability", "", NoBody)

get_room_info ==
    \E room_id \in RoomIds :
        /\ Begin("get_room_info", room_id, NoBody)
        /\ Invoke("get_room_info", room_id, NoBody)

book_room ==
    \E room_id \in RoomIds, user_data \in UserDatas :
        /\ Begin("book_room", room_id, user_data)
        /\ Invoke("book_room", room_id, user_data)

\* one iteration begins: the debug line, a new client, the request
StartAttempt ==
    /\ pc = "loop"
    /\ InRange(frame.attempt, frame.attempts)
    /\ log' = Append(log, Line("DEBUG", "attempt"))
    /\ nclients' = nclients + 1
    /\ open' = open \cup {NewClient}
    /\ frame' = [frame EXCEPT !.client = NewClient]
    /\ sent' = Append(sent, Request(frame, NewClient))
    /\ pc' = "awaiting"
    /\ UNCHANGED <<ctor, base_url, api_key, op, closed, outcomes, result, exception,
                   calls, first, accepted, mainv>>
    /\ UNCHANGED probeVars

\* the network answers; the iteration ends by return, by a handled exception
\* or by an exception no clause handles
Receive ==
    \E o \in Outcomes : \E done \in CarriedOut(o) :
        /\ pc = "awaiting"
        /\ outcomes' = Append(outcomes, o)
        /\ accepted' = IF done THEN accepted + 1 ELSE accepted
        /\ open' = Exit(frame.client, Raised(o))
        /\ closed' = closed \cup (open \ open')
        /\ IF Raised(o) = "none"
           THEN /\ log' = Append(log, Line("DEBUG", "response"))
                /\ result' = Returned(o)
                /\ pc' = "returned"
                /\ frame' = frame
                /\ exception' = exception
           ELSE IF Handler(Raised(o)) = "HTTPStatusError"
           THEN /\ log' = log \o ErrorLines("HTTPStatusError")
                /\ frame' = [frame EXCEPT !.attempt = @ + 1]
                /\ pc' = "loop"
                /\ UNCHANGED <<result, exception>>
           ELSE IF Handler(Raised(o)) = "Exception"
           THEN /\ log' = log \o ErrorLines("Exception")
                /\ frame' = [frame EXCEPT !.attempt = @ + 1]
                /\ pc' = "loop"
                /\ UNCHANGED <<result, exception>>
           ELSE /\ exception' = [type |-> Raised(o), where |-> "_make_request"]
                /\ pc' = "raised"
                /\ UNCHANGED <<log, frame, result>>
        /\ UNCHANGED <<ctor, base_url, api_key, op, nclients, sent, calls, first, mainv>>
        /\ UNCHANGED probeVars

\* the loop is over: the error line and `return None`
Exhaust ==
    /\ pc = "loop"
    /\ ~InRange(frame.attempt, frame.attempts)
    /\ log' = Append(log, Line("ERROR", "exhausted"))
    /\ result' = None
    /\ pc' = "returned"
    /\ UNCHANGED <<ctor, base_url, api_key, op, frame, open, closed, nclients, sent,
                   outcomes, exception, calls, first, accepted, mainv>>
    /\ UNCHANGED probeVars

Forget ==
    /\ op' = NoOp
    /\ frame' = NoFrame
    /\ sent' = << >>
    /\ outcomes' = << >>
    /\ log' = << >>
    /\ result' = NoResult
    /\ accepted' = 0
    /\ pc' = "idle"
    /\ UNCHANGED <<ctor, base_url, api_key, open, closed, nclients, exception, calls>>
    /\ UNCHANGED probeVars

\* the caller takes the returned value and goes on
Resume ==
    /\ pc = "returned"
    /\ Forget
    /\ first' = first
    /\ mainv' = mainv

\* a caller that keeps what its first call did, to compare the next one with it
ResumeKeeping ==
    /\ pc = "returned"
    /\ Forget
    /\ first' = IF calls = 1
                THEN [outcomes |-> outcomes, sent |-> sent, result |-> result]
                ELSE first
    /\ mainv' = mainv

----------------------------------------------------------------------------
(* main() *)

\* {"name": "Иван Иванов", "email": "ivan@example.com"}
MainUser == Dict("{\"name\": \"Ivan Ivanov\", \"email\": \"ivan@example.com\"}")

\* the calls main() awaits, in the order of its statements
MainProgramSwapped ==
    << [name |-> "get_room_info", room_id |-> "101", user_data |-> NoBody],
       [name |-> "get_room_availability", room_id |-> "", user_data |-> NoBody],
       [name |-> "book_room", room_id |-> "101", user_data |-> MainUser] >>
MainProgram ==
    << [name |-> "get_room_availability", room_id |-> "", user_data |-> NoBody],
       [name |-> "get_room_info", room_id |-> "101", user_data |-> NoBody],
       [name |-> "book_room", room_id |-> "101", user_data |-> MainUser] >>

\* main() reaches its next `await api. ...` statement
MainCall ==
    /\ pc = "idle"
    /\ calls < Len(MainProgram)
    /\ Len(mainv) = calls
    /\ calls' = calls + 1
    /\ op' = MainProgram[calls + 1]
    /\ sent' = << >>
    /\ outcomes' = << >>
    /\ result' = NoResult
    /\ accepted' = 0
    /\ Invoke(MainProgram[calls + 1].name, MainProgram[calls + 1].room_id,
              MainProgram[calls + 1].user_data)
    /\ UNCHANGED <<ctor, base_url, api_key, open, closed, nclients, first, mainv>>
    /\ UNCHANGED probeVars

\* the awaited call returned: main() binds the value and prints it
MainResume ==
    /\ pc = "returned"
    /\ Forget
    /\ first' = first
    /\ mainv' = Append(mainv, result)

----------------------------------------------------------------------------
(* check_url_accessibility (src/test.py) *)

Timeout == 5

SampleUrl == "http://192.168.0.50:8181/hotel-test/"
Urls == {SampleUrl, "https://pms.example/health", "hotel-test"}
Statuses == {200, 201, 403, 404, 500}

\* requests.get refuses a URL without a scheme before it connects
HasScheme(url) == url # "hotel-test"

NoMessage == [kind |-> "none", url |-> "", code |-> 0, exc |-> "none"]
\* f"URL {url} доступен."
Reachable(url) == [kind |-> "reachable", url |-> url, code |-> 0, exc |-> "none"]
\* f"URL {url} вернул код состояния {response.status_code}."
ReturnedStatus(url, code) == [kind |-> "status", url |-> url, code |-> code, exc |-> "none"]
\* f"URL {url} недоступен."
Unreachable(url) == [kind |-> "unreachable", url |-> url, code |-> 0, exc |-> "none"]
\* f"Проверка URL {url} завершилась по тайм-ауту."
TimedOut(url) == [kind |-> "timed_out", url |-> url, code |-> 0, exc |-> "none"]
\* f"Произошла ошибка при проверке URL {url}: {e}"
OtherError(url, e) == [kind |-> "error", url |-> url, code |-> 0, exc |-> e]

\* the classes an exception of the requests library is an instance of
RequestsBases(exc) ==
    CASE exc = "ConnectionError" -> {"ConnectionError", "RequestException", "OSError", "Exception"}
      [] exc = "SSLError" -> {"SSLError", "ConnectionError", "RequestException", "OSError", "Exception"}
      [] exc = "ConnectTimeout" -> {"ConnectTimeout", "ConnectionError", "Timeout",
                                    "RequestException", "OSError", "Exception"}
      [] exc = "ReadTimeout" -> {"ReadTimeout", "Timeout", "RequestException", "OSError", "Exception"}
      [] exc = "MissingSchema" -> {"MissingSchema", "RequestException", "ValueError", "OSError", "Exception"}
      [] exc = "ChunkedEncodingError" -> {"ChunkedEncodingError", "RequestException", "OSError", "Exception"}
      [] OTHER -> {"Exception"}

\* the except clauses of check_url_accessibility, in order
ProbeClausesNoGeneric == <<"ConnectionError", "Timeout">>
ProbeClauses == <<"ConnectionError", "Timeout", "RequestException">>

ProbeHandler(exc) ==
    LET hits == {i \in DOMAIN ProbeClauses : ProbeClauses[i] \in RequestsBases(exc)}
    IN  IF hits = {} THEN "none"
        ELSE ProbeClauses[CHOOSE i \in hits : \A j \in hits : i <= j]

\* the body of the try statement and its handlers, once requests.get is over
Classify(url, status, exc) ==
    IF exc = "none"
    THEN IF status = 200 THEN Reachable(url) ELSE ReturnedStatus(url, status)
    ELSE CASE ProbeHandler(exc) = "ConnectionError" -> Unreachable(url)
           [] ProbeHandler(exc) = "Timeout" -> TimedOut(url)
           [] ProbeHandler(exc) = "RequestException" -> OtherError(url, exc)
           [] OTHER -> NoMessage

\* requests.get is over, with a response or an exception
Finish(status, exc, expired) ==
    /\ p_status' = status
    /\ p_exc' = exc
    /\ p_expired' = expired
    /\ p_clock' = 0
    /\ p_result' = Classify(p_url, status, exc)
    /\ p_pc' = IF exc # "none" /\ ProbeHandler(exc) = "none" THEN "raised" ELSE "done"
    /\ UNCHANGED <<p_url, p_gets, p_runs>>
    /\ UNCHANGED clientVars

\* check_url_accessibility(url) is called and calls requests.get(url, timeout=5)
Check ==
    \E url \in Urls :
        /\ p_pc = "idle"
        /\ p_runs < MaxRuns
        /\ p_runs' = p_runs + 1
        /\ p_url' = url
        /\ p_gets' = 1
        /\ p_clock' = 0
        /\ p_status' = 0
        /\ p_expired' = FALSE
        /\ IF HasScheme(url)
           THEN /\ p_pc' = "connecting"
                /\ p_exc' = "none"
                /\ p_result' = NoMessage
           ELSE /\ p_pc' = IF ProbeHandler("MissingSchema") = "none" THEN "raised" ELSE "done"
                /\ p_exc' = "MissingSchema"
                /\ p_result' = Classify(url, 0, "MissingSchema")
        /\ UNCHANGED clientVars

\* a time unit passes while requests.get connects or waits for the response
Tick ==
    /\ p_pc \in {"connecting", "waiting"}
    /\ p_clock <= Timeout
    /\ p_clock' = p_clock + 1
    /\ UNCHANGED <<p_pc, p_url, p_gets, p_status, p_exc, p_expired, p_result, p_runs>>
    /\ UNCHANGED clientVars

Connected ==
    /\ p_pc = "connecting"
    /\ p_clock <= Timeout
    /\ p_pc' = "waiting"
    /\ p_clock' = 0
    /\ UNCHANGED <<p_url, p_gets, p_status, p_exc, p_expired, p_result, p_runs>>
    /\ UNCHANGED clientVars

ConnectFails ==
    \E exc \in {"ConnectionError", "SSLError"} :
        /\ p_pc = "connecting"
        /\ p_clock <= Timeout
        /\ Finish(0, exc, FALSE)

ConnectTimesOut ==
    /\ p_pc = "connecting"
    /\ p_clock > Timeout
    /\ Finish(0, "ConnectTimeout", TRUE)

ResponseArrives ==
    \E status \in Statuses :
        /\ p_pc = "waiting"
        /\ p_clock <= Timeout
        /\ Finish(status, "none", FALSE)

ReadFails ==
    \E exc \in {"ConnectionError", "ChunkedEncodingError"} :
        /\ p_pc = "waiting"
        /\ p_clock <= Timeout
        /\ Finish(0, exc, FALSE)

ReadTimesOut ==
    /\ p_pc = "waiting"
    /\ p_clock > Timeout
    /\ Finish(0, "ReadTimeout", TRUE)

\* the caller prints the string
Printed ==
    /\ p_pc = "done"
    /\ p_pc' = "idle"
    /\ UNCHANGED <<p_url, p_clock, p_gets, p_status, p_exc, p_expired, p_result, p_runs>>
    /\ UNCHANGED clientVars

----------------------------------------------------------------------------
(* Specifications *)

InitClient(credentials) ==
    /\ ctor \in credentials
    /\ base_url = ctor.base_url
    /\ api_key = ctor.api_key
    /\ pc = "idle"
    /\ op = NoOp
    /\ frame = NoFrame
    /\ open = {}
    /\ closed = {}
    /\ nclients = 0
    /\ sent = << >>
    /\ outcomes = << >>
    /\ log = << >>
    /\ result = NoResult
    /\ exception = NoException
    /\ calls = 0
    /\ first = NoCall
    /\ accepted = 0
    /\ mainv = << >>

InitProbe ==
    /\ p_pc = "idle"
    /\ p_url = ""
    /\ p_clock = 0
    /\ p_gets = 0
    /\ p_status = 0
    /\ p_exc = "none"
    /\ p_expired = FALSE
    /\ p_result = NoMessage
    /\ p_runs = 0

Init == InitClient(Credentials) /\ InitProbe

Next ==
    \/ make_request
    \/ get_room_availability
    \/ get_room_info
    \/ book_room
    \/ StartAttempt
    \/ Receive
    \/ Exhaust
    \/ Resume

Spec == Init /\ [][Next]_vars

\* the caller of the idempotence property: get_room_availability, twice
NextTwice ==
    \/ get_room_availability
    \/ StartAttempt
    \/ Receive
    \/ Exhaust
    \/ ResumeKeeping

SpecTwice == Init /\ [][NextTwice]_vars

\* the reachability script, on its own
SampleCredentials ==
    { [base_url |-> "http://192.168.0.50:8181/hotel-test/api",
       api_key |-> "eAqYAR9dveWUwSYJ2yfWX6E3DhCkYTumoS+oxCPD02g="] }

InitCheck == InitClient(SampleCredentials) /\ InitProbe

NextCheck ==
    \/ Check
    \/ Tick
    \/ Connected
    \/ ConnectFails
    \/ ConnectTimesOut
    \/ ResponseArrives
    \/ ReadFails
    \/ ReadTimesOut
    \/ Printed

SpecCheck == InitCheck /\ [][NextCheck]_vars

\* the sample driver main()
InitMain == InitClient(SampleCredentials) /\ InitProbe

NextMain ==
    \/ MainCall
    \/ StartAttempt
    \/ Receive
    \/ Exhaust
    \/ MainResume

SpecMain == InitMain /\ [][NextMain]_vars

----------------------------------------------------------------------------
(* Properties *)

\* an attempt succeeds when it is answered by a 2xx response with a JSON body;
\* anything else (another status, an error raised on the way) is a failure
IsSuccess(o) ==
    /\ o.kind = "response"
    /\ o.status \in 200..299
    /\ JsonLoads(o.body).ok

AllFailed == \A i \in DOMAIN outcomes : ~IsSuccess(outcomes[i])

Last(seq) == seq[Len(seq)]

InMakeRequest == frame # NoFrame

\* C1: a _make_request call with a positive attempt count N whose attempts all
\* fail never makes more than N attempts, and it ends by returning None after
\* exactly N attempts.
C1_AllFailuresGiveNoneAfterNAttempts ==
    (InMakeRequest /\ frame.attempts >= 1 /\ AllFailed) =>
        /\ Len(sent) <= frame.attempts
        /\ pc \in {"returned", "raised"} =>
              /\ pc = "returned"
              /\ result = None
              /\ Len(sent) = frame.attempts
              /\ Len(outcomes) = frame.attempts

C1_Witness ==
    /\ op.name = "_make_request"
    /\ frame.attempts = 2
    /\ pc = "returned"
    /\ outcomes = <<NetError("ConnectError"), Response(404, BodyNotFound)>>
    /\ Len(sent) = 2
    /\ result = None

\* C2: when K attempts fail and attempt K+1 succeeds (K smaller than the attempt
\* count), the call has made exactly K+1 attempts and has returned the parsed
\* JSON body of attempt K+1; no attempt follows a successful one.
C2_FirstSuccessIsReturned ==
    InMakeRequest =>
        /\ \A i \in 1..(Len(outcomes) - 1) : ~IsSuccess(outcomes[i])
        /\ (outcomes # << >> /\ IsSuccess(Last(outcomes))) =>
              /\ pc = "returned"
              /\ Len(sent) = Len(outcomes)
              /\ Len(outcomes) <= frame.attempts
              /\ result = JsonLoads(Last(outcomes).body).value

C2_Witness ==
    /\ pc = "returned"
    /\ outcomes = <<Response(500, BodyHtml), NetError("ReadTimeout"), Response(201, BodyBooked)>>
    /\ Len(sent) = 3
    /\ result = Dict(BodyBooked)

\* C3: no exception escapes _make_request: whatever the attempts meet (status
\* error, connection failure, timeout, unparseable body), the call is never
\* ended by an exception, it can always take its next step, and what it returns
\* is None or the parsed JSON body of its last response.
C3_NoExceptionEscapesMakeRequest ==
    /\ exception.where # "_make_request"
    /\ InMakeRequest =>
          /\ pc # "raised"
          /\ pc = "loop" => ENABLED (StartAttempt \/ Exhaust)
          /\ pc = "awaiting" => ENABLED Receive
          /\ pc = "returned" =>
                \/ result = None
                \/ /\ outcomes # << >>
                   /\ JsonLoads(Last(outcomes).body).ok
                   /\ result = JsonLoads(Last(outcomes).body).value

C3_Witness ==
    /\ pc = "returned"
    /\ outcomes = <<NetError("ConnectError"), Response(200, BodyHtml), Response(500, BodyHtml)>>
    /\ exception = NoException
    /\ result = None

DomainOperations == {"get_room_availability", "get_room_info", "book_room"}

\* C4: every Domain Operation ends by returning JSON or None and never by
\* raising, for every argument value, the work of book_room on user_data
\* before it delegates included.
C4_DomainOperationsNeverRaise ==
    op.name \in DomainOperations => (pc # "raised" /\ exception = NoException)

\* C5: every request of a Domain Operation is the one its fixed mapping names:
\* GET /rooms/availability without a body, GET /rooms/{room_id} without a body,
\* POST /rooms/{room_id}/book with user_data as the JSON body.
C5_DomainOperationsAreFixedMappings ==
    \A i \in DOMAIN sent :
        /\ op.name = "get_room_availability" =>
              /\ sent[i].verb = "GET"
              /\ sent[i].url = base_url \o "/rooms/availability"
              /\ sent[i].json = NoBody
        /\ op.name = "get_room_info" =>
              /\ sent[i].verb = "GET"
              /\ sent[i].url = base_url \o "/rooms/" \o op.room_id
              /\ sent[i].json = NoBody
        /\ op.name = "book_room" =>
              /\ sent[i].verb = "POST"
              /\ sent[i].url = base_url \o "/rooms/" \o op.room_id \o "/book"
              /\ sent[i].json = op.user_data

C5_Witness ==
    /\ op.name = "book_room"
    /\ op.room_id = "../admin"
    /\ op.user_data = UserB
    /\ Len(sent) = 3
    /\ sent[3].url = base_url \o "/rooms/../admin/book"
    /\ sent[3].json = UserB

\* C6: base_url and api_key stay what the constructor was given, and every
\* request goes to the concatenation of that base URL and the endpoint path,
\* as it is, with the header Authorization: Bearer <that token>.
C6_CredentialsAreFixedAndUsedAsGiven ==
    /\ base_url = ctor.base_url
    /\ api_key = ctor.api_key
    /\ \A i \in DOMAIN sent :
          /\ sent[i].url = ctor.base_url \o frame.endpoint
          /\ sent[i].headers = [Authorization |-> "Bearer " \o ctor.api_key]

C6_Witness ==
    /\ calls = 2
    /\ Len(sent) = 2
    /\ sent[2].url = "https://pms.example//rooms/availability"
    /\ sent[2].headers = [Authorization |-> "Bearer t0ken"]

\* C7: the client of an attempt lives for that attempt only: at most one client
\* is open, and only while the attempt awaits its answer; it is a client that
\* was never used before; the clients of the earlier attempts are closed
\* before the next attempt starts, and none is open after the call is over.
C7_ClientIsScopedToOneAttempt ==
    /\ Cardinality(open) <= 1
    /\ pc = "awaiting" =>
          /\ open = {frame.client}
          /\ frame.client \notin closed
          /\ Last(sent).client = frame.client
    /\ pc # "awaiting" => open = {}
    /\ \A i \in DOMAIN sent :
          /\ (i < Len(sent) \/ pc # "awaiting") => sent[i].client \in closed
          /\ \A j \in DOMAIN sent : i # j => sent[i].client # sent[j].client

C7_Witness ==
    /\ calls = 2
    /\ pc = "awaiting"
    /\ Len(sent) = 2
    /\ Cardinality(closed) = 4
    /\ ~IsSuccess(Last(outcomes))

SameRequest(r, q) ==
    /\ r.verb = q.verb
    /\ r.url = q.url
    /\ r.headers = q.headers
    /\ r.json = q.json

\* C8: the second of two get_room_availability calls issues the same requests
\* as the first, each through a client of its own; what it returns is decided
\* by its own answers, never by the first call's; and when the network answers
\* both calls alike, both make the same number of requests and return the same.
C8_SecondCallRepeatsTheFirst ==
    (first # NoCall /\ op.name = "get_room_availability") =>
        /\ \A i \in DOMAIN sent : \A j \in DOMAIN first.sent :
              /\ SameRequest(sent[i], first.sent[j])
              /\ sent[i].client # first.sent[j].client
        /\ pc = "returned" =>
              /\ Len(sent) >= 1
              /\ Len(sent) = Len(outcomes)
              /\ result = IF IsSuccess(Last(outcomes))
                          THEN JsonLoads(Last(outcomes).body).value
                          ELSE None
              /\ outcomes = first.outcomes =>
                    /\ Len(sent) = Len(first.sent)
                    /\ result = first.result

C8_Witness ==
    /\ first # NoCall
    /\ calls = 2
    /\ pc = "returned"
    /\ outcomes = <<Response(500, BodyHtml), Response(200, BodyRooms)>>
    /\ first.outcomes = outcomes
    /\ result = Dict(BodyRooms)
    /\ first.result = result

\* connection-level failures of requests.get, the timeouts apart
ConnectionLevel == {"ConnectionError", "SSLError"}

\* C9: check_url_accessibility calls requests.get once and returns the message
\* of the class of the outcome: 200 "reachable", another status N "returned
\* status code N", a connection-level failure "unreachable", a timeout "timed
\* out", any other request error the generic message.
C9_ProbeClassifiesEveryOutcome ==
    p_pc = "done" =>
        /\ p_gets = 1
        /\ p_result =
              CASE p_exc = "none" /\ p_status = 200 -> Reachable(p_url)
                [] p_exc = "none" /\ p_status # 200 -> ReturnedStatus(p_url, p_status)
                [] p_exc # "none" /\ p_expired -> TimedOut(p_url)
                [] p_exc \in ConnectionLevel /\ ~p_expired -> Unreachable(p_url)
                [] OTHER -> OtherError(p_url, p_exc)

\* C10: a request that runs out of the 5 time units, while connecting or while
\* waiting for the response, gives the "timed out" message, not "unreachable".
C10_TimeoutIsReportedAsTimeout ==
    (p_pc = "done" /\ p_expired) => p_result = TimedOut(p_url)

MessageKinds == {"reachable", "status", "unreachable", "timed_out", "error"}

\* C11: no exception escapes check_url_accessibility: whatever requests.get
\* raises, the check ends by returning one of its sentences about the URL,
\* and for a raised exception it is one of the three failure sentences.
C11_ProbeNeverRaises ==
    /\ p_pc # "raised"
    /\ p_pc = "done" =>
          /\ p_result.kind \in MessageKinds
          /\ p_result.url = p_url
          /\ p_exc # "none" => p_result.kind \in {"unreachable", "timed_out", "error"}

C11_Witness ==
    /\ p_pc = "done"
    /\ p_exc = "ChunkedEncodingError"
    /\ p_result = OtherError(p_url, "ChunkedEncodingError")

\* the lines of the _make_request activation (a Domain Operation logs one line
\* of its own before it delegates)
OwnLines == IF op.name \in DomainOperations THEN 1 ELSE 0
RequestLog == SubSeq(log, OwnLines + 1, Len(log))

IsStatusFailure(o) == o.kind = "response" /\ ~(o.status \in 200..299)

\* the line an attempt logs once its outcome is known
OutcomeLine(o) ==
    IF IsSuccess(o) THEN Line("DEBUG", "response")
    ELSE IF IsStatusFailure(o) THEN Line("ERROR", "status_error")
    ELSE Line("ERROR", "request_error")

HasExhaustedLine ==
    /\ Len(RequestLog) = Len(sent) + Len(outcomes) + 1
    /\ Last(RequestLog) = Line("ERROR", "exhausted")

\* every attempt has its "request issued" line followed, once the attempt is
\* over, by one line: "response received" or one of the two error lines
AttemptLinesFollowTheAttempts ==
    /\ Len(RequestLog) \in {Len(sent) + Len(outcomes), Len(sent) + Len(outcomes) + 1}
    /\ \A k \in DOMAIN sent : RequestLog[2 * k - 1] = Line("DEBUG", "attempt")
    /\ \A k \in DOMAIN outcomes : RequestLog[2 * k] = OutcomeLine(outcomes[k])
    /\ Len(RequestLog) = Len(sent) + Len(outcomes) + 1 => HasExhaustedLine

\* C12 as claimed: the log lines follow the attempts, and the "exhausted" line
\* is there, once and last, if and only if the call returned None.
C12_ExhaustedLineIffNoneReturned ==
    InMakeRequest =>
        /\ AttemptLinesFollowTheAttempts
        /\ HasExhaustedLine <=> (pc = "returned" /\ result = None)

\* C12, what the code does: the log lines follow the attempts, and the
\* "exhausted" line is there, once and last, if and only if the call returned
\* because no attempt was left (it then returns None); a call that returns the
\* value of a successful JSON null body has no such line.
C12_ExhaustedLineIffAttemptsExhausted ==
    InMakeRequest =>
        /\ AttemptLinesFollowTheAttempts
        /\ HasExhaustedLine <=> (pc = "returned" /\ AllFailed)
        /\ HasExhaustedLine => result = None

C12_Witness ==
    /\ op.name = "get_room_info"
    /\ pc = "returned"
    /\ outcomes = <<Response(404, BodyNotFound), NetError("ReadTimeout"), Response(200, BodyHtml)>>
    /\ log = <<Line("DEBUG", "room_info"),
               Line("DEBUG", "attempt"), Line("ERROR", "status_error"),
               Line("DEBUG", "attempt"), Line("ERROR", "request_error"),
               Line("DEBUG", "attempt"), Line("ERROR", "request_error"),
               Line("ERROR", "exhausted")>>

\* two answers alike up to the code of a non-2xx status
Similar(o, q) == o = q \/ (IsStatusFailure(o) /\ IsStatusFailure(q))

Min(a, b) == IF a <= b THEN a ELSE b

\* the answers of the call in progress and of the first call are alike as far
\* as both go
SimilarSoFar ==
    \A i \in 1..Min(Len(outcomes), Len(first.outcomes)) :
        Similar(outcomes[i], first.outcomes[i])

\* C13: every non-2xx status is handled alike. A call returns after a non-2xx
\* answer only when that was its last attempt, and then returns None; and of
\* two calls whose answers differ only in the codes of the non-2xx statuses,
\* neither stops before the other: they make the same number of attempts,
\* issue the same requests and return the same value.
C13_StatusCodesAreTreatedAlike ==
    /\ (InMakeRequest /\ pc = "returned" /\ outcomes # << >>
            /\ IsStatusFailure(Last(outcomes))) =>
          /\ Len(outcomes) = frame.attempts
          /\ result = None
    /\ (first # NoCall /\ pc = "returned" /\ SimilarSoFar) =>
          /\ Len(sent) = Len(first.sent)
          /\ \A i \in DOMAIN sent : SameRequest(sent[i], first.sent[i])
          /\ result = first.result

C13_Witness ==
    /\ first # NoCall
    /\ pc = "returned"
    /\ first.outcomes = <<Response(404, BodyNotFound), Response(500, BodyHtml),
                          Response(200, BodyRooms)>>
    /\ outcomes = <<Response(500, BodyHtml), Response(404, BodyNotFound),
                    Response(200, BodyRooms)>>
    /\ Len(sent) = 3
    /\ result = first.result

\* the request the k-th call of main() is to issue
IsRequestOfCall(r, k) ==
    CASE k = 1 -> r.verb = "GET" /\ r.url = base_url \o "/rooms/availability"
      [] k = 2 -> r.verb = "GET" /\ r.url = base_url \o "/rooms/101"
      [] k = 3 -> r.verb = "POST" /\ r.url = base_url \o "/rooms/101/book"
      [] OTHER -> FALSE

\* C14: main() makes its three calls one after the other, in the order
\* get_room_availability, get_room_info("101"), book_room("101", ...): while a
\* call runs, every earlier call has returned its value to main(); the
\* requests issued are those of the call that runs; between two calls nothing
\* is in flight; and the next call is made whatever the earlier ones returned.
C14_MainCallsRunInOrder ==
    /\ calls <= 3
    /\ pc # "raised"
    /\ pc = "idle" =>
          /\ Len(mainv) = calls
          /\ sent = << >>
          /\ open = {}
          /\ calls < 3 => ENABLED MainCall
    /\ pc # "idle" =>
          /\ Len(mainv) = calls - 1
          /\ calls = 1 => op.name = "get_room_availability"
          /\ calls = 2 => op.name = "get_room_info" /\ op.room_id = "101"
          /\ calls = 3 => op.name = "book_room" /\ op.room_id = "101"
                             /\ op.user_data = MainUser
          /\ \A i \in DOMAIN sent : IsRequestOfCall(sent[i], calls)

C14_Witness ==
    /\ calls = 3
    /\ mainv = <<None, None>>
    /\ pc = "awaiting"
    /\ Len(sent) = 1
    /\ sent[1].verb = "POST"
    /\ sent[1].json = MainUser

\* C15: within one book_room call the server carries out at most one booking
\* POST, and no request is sent once it has carried one out.
C15_AtMostOneBookingCarriedOut ==
    op.name = "book_room" =>
        /\ accepted <= 1
        /\ accepted = 1 => Len(sent) = Len(outcomes)

\* the method values that are GET when case is ignored
GetSpellings == {"GET", "get"}

C16_WitnessGet ==
    /\ op.name = "_make_request"
    /\ frame.method = "get"
    /\ frame.data = UserA
    /\ Len(sent) = 1
    /\ sent[1].verb = "GET"
    /\ sent[1].json = NoBody

\* C17: a _make_request call with an attempt count of zero or less issues no
\* request and opens no client; all it does is log the "exhausted" line once
\* and return None.
C17_NoAttemptsForNonPositiveCount ==
    (InMakeRequest /\ frame.attempts <= 0) =>
        /\ sent = << >>
        /\ outcomes = << >>
        /\ open = {}
        /\ frame.client = 0
        /\ pc \in {"loop", "returned"}
        /\ pc = "loop" => (log = << >> /\ ENABLED Exhaust)
        /\ pc = "returned" => (result = None /\ log = <<Line("ERROR", "exhausted")>>)

C17_Witness ==
    /\ op.name = "_make_request"
    /\ frame.attempts = 0 - 1
    /\ pc = "returned"
    /\ sent = << >>
    /\ result = None
    /\ log = <<Line("ERROR", "exhausted")>>
====
